---- MODULE Spec2Model ----
(***************************************************************************)
(* Model of src/index.js, the mcp-websearch server: the five tool handlers *)
(* (web_search, ai_search, web_scrape, get_links, scrape_multiple) and the *)
(* retrying search client req.  One invocation is in progress at a time    *)
(* (handlers share no mutable state); every await in the code is a place   *)
(* where the model stops and a later action resumes the handler with the   *)
(* outcome of the awaited call.                                            *)
(*                                                                         *)
(* Values: an omitted optional argument is "" (strings) or 0 (numbers,     *)
(* which the schemas keep >= 1 when present); both are falsy, as undefined *)
(* is in the code.  A text is a record [id, len]: what it says and how     *)
(* many characters it has, so that slice() is a change of len.             *)
(***************************************************************************)
EXTENDS Integers, Sequences, FiniteSets

VARIABLES
    API_KEY,    \* process.env.SEARCHAPI_KEY, read once at startup
    tool,       \* the handler in progress, "none" when idle
    args,       \* its argument record
    pc,         \* where the handler is suspended
    i,          \* req: loop index
    err,        \* req: the error kept for the final throw
    requests,   \* history: the URL of every axios.get call of this invocation
    waits,      \* history: the delay of every backoff timer req has set
    failures,   \* history: the error of every failed axios.get of req
    res,        \* the response the handler was resumed with
    jobs,       \* scrape_multiple: the promises of urls.map, by position
    result      \* what the handler returned, or that it threw

vars == <<API_KEY, tool, args, pc, i, err, requests, waits, failures, res, jobs, result>>

----------------------------------------------------------------------------
(* Program constants *)

API_URL == "https://www.searchapi.io/api/v1/search"

\* req(url, params, tries = 2)
Tries == 2

\* setTimeout(r, 1000 * (i + 1))
BackoffUnit == 1000

\* el.text().trim().length > 300
ContentThreshold == 300

\* urls: z.array(...).min(1).max(5)
MaxUrls == 5

CONTENT_SELECTORS ==
    << "article", "main", "[role='main']",
       ".post-content", ".article-content", ".entry-content",
       ".content", "#content", ".post-body", ".markdown-body" >>

MULTI_SELECTORS == << "article", "main", ".content", "#content", "body" >>

----------------------------------------------------------------------------
(* Generic helpers *)

Min(a, b) == IF a < b THEN a ELSE b

Range(s) == { s[k] : k \in DOMAIN s }

\* JavaScript truthiness of a modelled string ("undefined": the variable is unset)
Truthy(v) == v # "" /\ v # "undefined"

NoError == [code |-> "", status |-> 0, message |-> ""]

\* Errors axios.get rejects with: e.code, e.response?.status (0: no response), e.message
TransportErrors ==
    { [code |-> "ENOTFOUND",       status |-> 0,   message |-> "getaddrinfo ENOTFOUND"],
      [code |-> "ETIMEDOUT",       status |-> 0,   message |-> "connect ETIMEDOUT"],
      [code |-> "ECONNABORTED",    status |-> 0,   message |-> "timeout exceeded"],
      [code |-> "ERR_BAD_REQUEST", status |-> 403, message |-> "Request failed with status code 403"],
      [code |-> "ERR_BAD_REQUEST", status |-> 404, message |-> "Request failed with status code 404"],
      [code |-> "ERR_BAD_REQUEST", status |-> 429, message |-> "Request failed with status code 429"],
      [code |-> "ERR_BAD_RESPONSE", status |-> 500, message |-> "Request failed with status code 500"] }

\* Errors raised while a response is processed
NullDataError   == [code |-> "", status |-> 0, message |-> "Cannot read properties of null"]
CheerioLoadError == [code |-> "", status |-> 0, message |-> "cheerio.load() expects a string"]
SelectorError   == [code |-> "", status |-> 0, message |-> "Unmatched selector"]

parseError(e) ==
    IF e.code = "ENOTFOUND" THEN "Domain not found"
    ELSE IF e.code = "ETIMEDOUT" THEN "Timed out"
    ELSE IF e.status = 403 THEN "Forbidden (403)"
    ELSE IF e.status = 404 THEN "Not found (404)"
    ELSE IF e.status = 429 THEN "Rate limited"
    ELSE e.message

\* The labels parseError itself produces (every other text is a raw message)
ParsedLabels ==
    { "Domain not found", "Timed out", "Forbidden (403)", "Not found (404)", "Rate limited" }

\* { content: [{ type: "text", text }], isError }
ErrorResult(text) == [isError |-> TRUE, text |-> text]
TextResult(text)  == [isError |-> FALSE, text |-> text]
NoResult == [isError |-> FALSE, text |-> [lead |-> "(pending)"]]
Thrown(e) == [isError |-> FALSE, text |-> [lead |-> "(thrown)", msg |-> e.message]]

NoKeyText == [lead |-> "Error: SEARCHAPI_KEY not configured."]

----------------------------------------------------------------------------
(* State shared by every handler *)

Idle ==
    /\ tool = "none"
    /\ pc = "idle"

Init ==
    /\ API_KEY \in {"undefined", "", "key"}
    /\ tool = "none"
    /\ args = [query |-> ""]
    /\ pc = "idle"
    /\ i = 0
    /\ err = NoError
    /\ requests = << >>
    /\ waits = << >>
    /\ failures = << >>
    /\ res = [kind |-> "none"]
    /\ jobs = << >>
    /\ result = NoResult

\* The handler's promise settles: with a value ...
Return(r) ==
    /\ pc' = "done"
    /\ result' = r

\* ... or with an exception no catch of the handler took
Throw(e) ==
    /\ pc' = "threw"
    /\ result' = Thrown(e)

----------------------------------------------------------------------------
(* The search client req, and its two callers web_search and ai_search *)

SearchTools == {"web_search", "ai_search"}

WebSearchArgs ==
    [query: {"q"}, num_results: {0, 3}, page: {0, 2}, time_period: {""},
     site: {"", "github.com"}]

AiSearchArgs ==
    [query: {"q"}, image_url: {"", "http://img"}, location: {"", "NYC"}]

\* res.data of the search API: null, or a JSON object with the fields the
\* handlers read (organic: organic_results.length, total: total_results,
\* markdown: markdown.length, blocks/refs/locals: the lengths of text_blocks,
\* reference_links, local_results; 0 or "" when the field is absent)
NullData == [kind |-> "null", organic |-> 0, total |-> "", markdown |-> 0,
             blocks |-> 0, refs |-> 0, locals |-> 0]

SearchData ==
    {NullData} \cup
    [kind: {"json"}, organic: {0, 4, 12}, total: {"", "1200"}, markdown: {0},
     blocks: {0}, refs: {0}, locals: {0}]

AiData ==
    {NullData} \cup
    [kind: {"json"}, organic: {0}, total: {""}, markdown: {0, 9000},
     blocks: {0, 12}, refs: {0, 9}, locals: {0, 6}]

\* A check that takes only an unset variable for a missing credential
KeyMissing_UnsetOnly == API_KEY = "undefined"

\* if (!API_KEY) return { ..., isError: true }
KeyMissing == ~Truthy(API_KEY)

\* A loop that stops one round early
ReqLoopTest_Exclusive(k) == k < Tries

\* for (let i = 0; i <= tries; i++)
ReqLoopTest(k) == k <= Tries

\* if (i < tries) await new Promise(r => setTimeout(r, 1000 * (i + 1)))
ReqBackoff(k) == k < Tries

ReqDelay(k) == BackoffUnit * (k + 1)

\* A catch that keeps the first error instead of the latest
ReqKeep_First(old, e) == IF old = NoError THEN e ELSE old

\* catch (e) { err = e; ... }
ReqKeep(old, e) == e

\* The body of web_search's try once req has returned data
WebSearchText(a, data) ==
    LET num   == IF a.num_results # 0 THEN a.num_results ELSE 10
        page  == IF a.page # 0 THEN a.page ELSE 1
        shown == Min(data.organic, num)
    IN  [lead |-> "Search: ", query |-> a.query, site |-> a.site,
         time_period |-> a.time_period, page |-> page,
         total |-> IF data.total # "" THEN data.total ELSE "?",
         shown |-> shown, nothing |-> (shown = 0),
         tip |-> IF shown < 5 THEN page + 1 ELSE 0]

\* The body of ai_search's try once req has returned data
AiSearchText(a, data) ==
    [lead |-> "AI Answer: ", query |-> a.query,
     markdown |-> Min(data.markdown, 8000),
     blocks |-> IF data.markdown # 0 THEN 0 ELSE Min(data.blocks, 10),
     sources |-> Min(data.refs, 8),
     nearby |-> Min(data.locals, 5)]

SearchFailLead(t) == IF t = "web_search" THEN "Search failed: " ELSE "AI search failed: "

\* catch (e) { return { content: [{ ..., text: "<lead>" + parseError(e) }], isError: true } }
SearchCatch(e) ==
    Return(ErrorResult([lead |-> SearchFailLead(tool), msg |-> parseError(e)]))

\* Top of req's for loop with loop index k and kept error e: either the next
\* axios.get is issued, or the loop is over and req throws e into the handler's try
ReqIterate(k, e) ==
    IF ReqLoopTest(k)
    THEN /\ requests' = Append(requests, API_URL)
         /\ pc' = "get"
         /\ UNCHANGED result
    ELSE /\ SearchCatch(e)
         /\ UNCHANGED requests

\* The handler is called: the credential check, then req's first axios.get
InvokeSearch(t, a) ==
    /\ Idle
    /\ tool' = t
    /\ args' = a
    /\ IF KeyMissing
       THEN /\ Return(ErrorResult(NoKeyText))
            /\ UNCHANGED <<i, err, requests>>
       ELSE /\ i' = 0
            /\ err' = NoError
            /\ ReqIterate(0, NoError)
    /\ UNCHANGED <<API_KEY, waits, failures, res, jobs>>

web_search == \E a \in WebSearchArgs : InvokeSearch("web_search", a)

ai_search == \E a \in AiSearchArgs : InvokeSearch("ai_search", a)

\* axios.get resolves: req returns res.data and the handler formats it
\* (reading a field of a null body throws inside the try)
ReqResolve ==
    /\ pc = "get"
    /\ tool \in SearchTools
    /\ \E data \in (IF tool = "web_search" THEN SearchData ELSE AiData) :
          /\ res' = data
          /\ IF data.kind = "null"
             THEN SearchCatch(NullDataError)
             ELSE Return(TextResult(IF tool = "web_search"
                                    THEN WebSearchText(args, data)
                                    ELSE AiSearchText(args, data)))
    /\ UNCHANGED <<API_KEY, tool, args, i, err, requests, waits, failures, jobs>>

\* axios.get rejects: the error is kept; a backoff timer is set, or (after the
\* last try) i++ ends the loop and err is thrown
ReqReject ==
    /\ pc = "get"
    /\ tool \in SearchTools
    /\ \E e \in TransportErrors :
          /\ err' = ReqKeep(err, e)
          /\ failures' = Append(failures, e)
          /\ IF ReqBackoff(i)
             THEN /\ waits' = Append(waits, ReqDelay(i))
                  /\ pc' = "sleep"
                  /\ UNCHANGED <<i, requests, result>>
             ELSE /\ i' = i + 1
                  /\ ReqIterate(i + 1, err')
                  /\ UNCHANGED waits
    /\ UNCHANGED <<API_KEY, tool, args, res, jobs>>

\* The backoff timer fires: i++ and the loop goes round
ReqWake ==
    /\ pc = "sleep"
    /\ tool \in SearchTools
    /\ i' = i + 1
    /\ ReqIterate(i + 1, err)
    /\ UNCHANGED <<API_KEY, tool, args, err, waits, failures, res, jobs>>

----------------------------------------------------------------------------
(* Pages: res.data of a page fetch, as cheerio parses it *)

\* Bounds of the page model
MaxRegions == 2
MaxAnchors == 2

SeqUpTo(S, n) == UNION { [1..k -> S] : k \in 0..n }

\* The selectors a page is asked about: the content containers, and the one
\* valid selector the modelled callers supply that is not among them
RegionNames == Range(CONTENT_SELECTORS) \cup {".custom"}

NoRegion == [n |-> 0, len |-> 0]
NoRegions == [s \in RegionNames |-> NoRegion]

\* $(sel) on the parsed page, junk elements already removed: n elements
\* matched, and the length of their trimmed text in the requested rendering
RegionLens == {0, ContentThreshold, ContentThreshold + 1}

RegionMaps ==
    UNION { { [s \in RegionNames |-> IF s \in P THEN [n |-> 1, len |-> f[s]] ELSE NoRegion] :
                f \in [P -> RegionLens] } :
            P \in { Q \in SUBSET RegionNames : Cardinality(Q) <= MaxRegions } }

\* An attribute read with .attr(): "undefined" when the element is absent
FirstSource(v) == {"undefined", "", v}
SecondSource(v) == {"undefined", v}

\* Anchor texts, trimmed and whitespace-collapsed
AnchorTexts ==
    { [id |-> "", len |-> 0], [id |-> "First", len |-> 5],
      [id |-> "Second", len |-> 6], [id |-> "Long", len |-> 120] }

Hrefs == { "/a", "http://site/a", "/b", "#top", "javascript:f()", "mailto:m@x", "http://" }

Anchors == [href: Hrefs, text: AnchorTexts]

\* The anchor of a page's navigation bar, inside a junk element
NavAnchor == [href |-> "/a", text |-> [id |-> "Nav", len |-> 3]]

PageUrl == "http://site/p1"

\* A page.  title: $("title").text().trim(); the meta fields: the content
\* attribute of that meta tag; timeDt: the datetime of the first time element
\* outside junk; nav: the a[href] inside junk elements (first in the
\* document); anchors: the a[href] outside them, all of them inside every
\* region the page has.
DefaultPage ==
    [kind |-> "html", title |-> "Doc title", ogTitle |-> "undefined",
     metaDesc |-> "undefined", ogDesc |-> "undefined",
     metaAuthor |-> "undefined", articleAuthor |-> "undefined",
     pubTime |-> "undefined", timeDt |-> "undefined",
     regions |-> NoRegions, bodyLen |-> 100, nav |-> << >>, anchors |-> << >>]

\* res.data is null (a JSON body "null"): cheerio.load throws
NullPage == [DefaultPage EXCEPT !.kind = "null"]

MetaPages ==
    [kind: {"html"}, title: {"", "Doc title"}, ogTitle: SecondSource("OG title"),
     metaDesc: FirstSource("Meta description"), ogDesc: SecondSource("OG description"),
     metaAuthor: FirstSource("Meta author"), articleAuthor: SecondSource("Article author"),
     pubTime: FirstSource("2024-01-01"), timeDt: SecondSource("2023-12-31"),
     regions: {NoRegions}, bodyLen: {100}, nav: {<< >>}, anchors: {<< >>}]

ContentPages ==
    { [DefaultPage EXCEPT !.regions = r, !.bodyLen = b] : r \in RegionMaps, b \in {0, 12000} }

LinkPages ==
    { [DefaultPage EXCEPT !.nav = n, !.anchors = a] :
        n \in {<< >>, <<NavAnchor>>}, a \in SeqUpTo(Anchors, MaxAnchors) }

\* JavaScript a || b on attribute values
Or(a, b) == IF Truthy(a) THEN a ELSE b

\* trim(str, len): whitespace is already normal in the modelled texts; slice(0, len)
trim(n, len) == Min(n, len)

Slice(t, n) == [t EXCEPT !.len = Min(t.len, n)]

\* new URL(href, url).href for the modelled hrefs; "http://" has no host and throws
ValidHref(href) == href # "http://"

Resolve(href, base) ==
    CASE href = "/a" -> "http://site/a"
      [] href = "/b" -> "http://site/b"
      [] href = "#top" -> "http://site/p1#top"
      [] OTHER -> href

\* [...new Map(links.map(l => [l.url, l])).values()]: a Map keeps a key at the
\* place of its first set() and gives it the value of its last
RECURSIVE MapValues(_, _)
MapValues(links, acc) ==
    IF links = << >> THEN acc
    ELSE LET l == Head(links) IN
         IF \E k \in DOMAIN acc : acc[k].url = l.url
         THEN MapValues(Tail(links),
                        [k \in DOMAIN acc |-> IF acc[k].url = l.url THEN l ELSE acc[k]])
         ELSE MapValues(Tail(links), Append(acc, l))

Uniq(links) == MapValues(links, << >>)

Take(s, n) == SubSeq(s, 1, Min(Len(s), n))

\* .slice(0, 20) of web_scrape's links, .slice(0, 50) of get_links'
ScrapeLinksCap == 20
GetLinksCap == 50

----------------------------------------------------------------------------
(* web_scrape *)

PageTools == {"web_scrape", "get_links"}

\* The modelled callers ask for the text rendering (extract_mode omitted or
\* "text"); "a[" is a selector css-select cannot parse
WebScrapeArgs ==
    [url: {PageUrl}, selector: {"", "article", ".custom", "a["},
     extract_mode: {"", "text"}, include_links: {FALSE, TRUE}, max_length: {0, 1000}]

ValidSelector(sel) == sel # "a["

ScrapeTitle(p) == Or(p.title, Or(p.ogTitle, "Untitled"))

ScrapeDesc(p) == Or(p.metaDesc, Or(p.ogDesc, ""))

\* An author that falls back to the article:author meta tag
ScrapeAuthor_WithFallback(p) == Or(p.metaAuthor, Or(p.articleAuthor, ""))

\* let author = $('meta[name="author"]').attr("content") || ""
ScrapeAuthor(p) == Or(p.metaAuthor, "")

ScrapeDate(p) == Or(p.pubTime, Or(p.timeDt, ""))

\* A test that lets a text of exactly the threshold through
Qualifies_AtLeast(el) == el.n # 0 /\ el.len >= ContentThreshold

\* if (el.length && el.text().trim().length > 300)
Qualifies(el) == el.n # 0 /\ el.len > ContentThreshold

\* for (let sel of CONTENT_SELECTORS) { ... $main = el; break; }
RECURSIVE FirstContent(_, _)
FirstContent(p, k) ==
    IF k > Len(CONTENT_SELECTORS) THEN "undefined"
    ELSE IF Qualifies(p.regions[CONTENT_SELECTORS[k]]) THEN CONTENT_SELECTORS[k]
    ELSE FirstContent(p, k + 1)

\* The region $main ends up as: a selector, or "body"
MainRegion(p, selector) ==
    LET m == IF Truthy(selector) THEN selector ELSE FirstContent(p, 1)
    IN  IF m = "undefined" \/ p.regions[m].n = 0 THEN "body" ELSE m

MainLen(p, m) == IF m = "body" THEN p.bodyLen ELSE p.regions[m].len

\* $main.find("a[href]").each(...): the links pushed, in document order
RECURSIVE ScrapeLinks(_, _)
ScrapeLinks(anchors, base) ==
    IF anchors = << >> THEN << >>
    ELSE LET a == Head(anchors)
             rest == ScrapeLinks(Tail(anchors), base)
         IN  IF a.href \in {"#top", "javascript:f()"} THEN rest
             ELSE IF a.text.len = 0 THEN rest
             ELSE IF ~ValidHref(a.href) THEN rest
             ELSE <<[text |-> Slice(a.text, 80), url |-> Resolve(a.href, base)]>> \o rest

\* The text web_scrape returns for page p
WebScrapeText(a, p) ==
    LET max   == IF a.max_length # 0 THEN a.max_length ELSE 10000
        main  == MainRegion(p, a.selector)
        body  == trim(MainLen(p, main), max)
        links == IF a.include_links THEN ScrapeLinks(p.anchors, a.url) ELSE << >>
    IN  [lead |-> "URL: ", url |-> a.url, title |-> ScrapeTitle(p),
         desc |-> ScrapeDesc(p), author |-> ScrapeAuthor(p), date |-> ScrapeDate(p),
         main |-> main, body |-> body, nocontent |-> (body = 0),
         links |-> Take(Uniq(links), ScrapeLinksCap)]

\* What the try of web_scrape throws while it processes page p, if anything
WebScrapeThrows(a, p) ==
    IF p.kind = "null" THEN CheerioLoadError
    ELSE IF Truthy(a.selector) /\ ~ValidSelector(a.selector) THEN SelectorError
    ELSE NoError

----------------------------------------------------------------------------
(* get_links *)

GetLinksArgs == [url: {PageUrl}, filter: {"", "FIRST", "site/b"}]

\* toLowerCase() on the modelled strings (the URLs are lower case already)
ToLower(str) ==
    CASE str = "FIRST" -> "first"
      [] str = "First" -> "first"
      [] str = "Second" -> "second"
      [] str = "Long" -> "long"
      [] str = "Nav" -> "nav"
      [] OTHER -> str

\* s.includes(f) on the modelled (lower-cased) strings
Includes(str, f) == str = f \/ (f = "site/b" /\ str = "http://site/b")

NoText == [id |-> "(no text)", len |-> 9]

\* $("a[href]").each(...): the links pushed, in document order
RECURSIVE GetLinks(_, _, _)
GetLinks(anchors, base, filter) ==
    IF anchors = << >> THEN << >>
    ELSE LET a == Head(anchors)
             rest == GetLinks(Tail(anchors), base, filter)
             abs == Resolve(a.href, base)
             txt == IF Slice(a.text, 100).len = 0 THEN NoText ELSE Slice(a.text, 100)
             f == ToLower(filter)
         IN  IF a.href \in {"#top", "javascript:f()", "mailto:m@x"} THEN rest
             ELSE IF ~ValidHref(a.href) THEN rest
             ELSE IF /\ Truthy(filter)
                     /\ ~Includes(ToLower(abs), f)
                     /\ ~Includes(ToLower(txt.id), f) THEN rest
             ELSE <<[text |-> txt, url |-> abs]>> \o rest

\* The text get_links returns for page p
GetLinksText(a, p) ==
    LET uniq == Uniq(GetLinks(p.nav \o p.anchors, a.url, a.filter))
    IN  [lead |-> "Links from: ", url |-> a.url, found |-> Len(uniq),
         showing |-> IF Len(uniq) > GetLinksCap THEN GetLinksCap ELSE 0,
         filter |-> a.filter, links |-> Take(uniq, GetLinksCap)]

GetLinksThrows(a, p) == IF p.kind = "null" THEN CheerioLoadError ELSE NoError

----------------------------------------------------------------------------
(* The two single-page handlers as steps *)

ScrapeDefaults(a) == a.selector = "" /\ a.extract_mode = "" /\ a.max_length = 0

\* The bodies a modelled server answers with.  Each page varies one part
\* (metadata, regions or anchors) and leaves the rest as in DefaultPage.
PagesFor(t, a) ==
    {NullPage} \cup
    IF t = "get_links" THEN LinkPages
    ELSE IF ~ScrapeDefaults(a)
         THEN (IF a.include_links THEN {DefaultPage} ELSE ContentPages)
         ELSE (IF a.include_links THEN LinkPages ELSE ContentPages \cup MetaPages \cup LinkPages)

\* A catch that lets the error out of the handler
PageCatch_Rethrow(e) == Throw(e)

\* catch (e) { return { ..., text: "Scrape failed (url): ..." | "Failed: ...", isError: true } }
PageCatch(e) ==
    Return(ErrorResult(IF tool = "web_scrape"
                       THEN [lead |-> "Scrape failed (", url |-> args.url, msg |-> parseError(e)]
                       ELSE [lead |-> "Failed: ", url |-> "", msg |-> parseError(e)]))

\* A fetch that is tried once more after a failure
PageFetchFailed_Retry(e) ==
    IF Len(requests) < 2
    THEN /\ requests' = Append(requests, args.url)
         /\ UNCHANGED <<pc, result>>
    ELSE /\ PageCatch(e)
         /\ UNCHANGED requests

\* axios.get rejected inside the try: straight to the catch
PageFetchFailed(e) ==
    /\ PageCatch(e)
    /\ UNCHANGED requests

\* The handler is called: everything up to await axios.get(url, ...)
InvokePage(t, a) ==
    /\ Idle
    /\ tool' = t
    /\ args' = a
    /\ requests' = Append(requests, a.url)
    /\ pc' = "page"
    /\ UNCHANGED <<API_KEY, i, err, waits, failures, res, jobs, result>>

web_scrape == \E a \in WebScrapeArgs : InvokePage("web_scrape", a)

get_links == \E a \in GetLinksArgs : InvokePage("get_links", a)

\* axios.get resolves: the rest of the try runs to its return, or throws
PageResolve ==
    /\ pc = "page"
    /\ tool \in PageTools
    /\ \E p \in PagesFor(tool, args) :
          LET e == IF tool = "web_scrape" THEN WebScrapeThrows(args, p)
                   ELSE GetLinksThrows(args, p)
          IN  /\ res' = p
              /\ IF e # NoError
                 THEN PageCatch(e)
                 ELSE Return(TextResult(IF tool = "web_scrape"
                                        THEN WebScrapeText(args, p)
                                        ELSE GetLinksText(args, p)))
    /\ UNCHANGED <<API_KEY, tool, args, i, err, requests, waits, failures, jobs>>

\* axios.get rejects (transport failure, or a status >= 400)
PageReject ==
    /\ pc = "page"
    /\ tool \in PageTools
    /\ \E e \in TransportErrors : PageFetchFailed(e)
    /\ UNCHANGED <<API_KEY, tool, args, i, err, waits, failures, res, jobs>>

----------------------------------------------------------------------------
(* scrape_multiple *)

SiteUrls ==
    << "http://site/p1", "http://site/p2", "http://site/p3", "http://site/p4",
       "http://site/p5" >>

\* 1 to MaxUrls distinct URLs, and a list that names one URL twice
UrlLists ==
    { SubSeq(SiteUrls, 1, n) : n \in 1..MaxUrls } \cup { <<SiteUrls[1], SiteUrls[1]>> }

MultiArgs == [urls: UrlLists, max_per_page: {0, 500}]

\* What a job's axios.get may bring: two pages, a null body, two errors
MultiPages ==
    { [DefaultPage EXCEPT !.title = "",
                          !.regions = [NoRegions EXCEPT !["main"] = [n |-> 1, len |-> 3000]]],
      DefaultPage, NullPage }

MultiErrors == { e \in TransportErrors : e.status \in {404, 500} }

NoValue == [url |-> "", title |-> "", body |-> 0]

Pending == [status |-> "pending", page |-> DefaultPage, value |-> NoValue, reason |-> NoError]

\* for (let sel of ["article", "main", ".content", "#content", "body"])
\*   if ($(sel).length) { body = $(sel).text().trim(); break; }
RECURSIVE MultiBody(_, _)
MultiBody(p, k) ==
    IF MULTI_SELECTORS[k] = "body" THEN p.bodyLen
    ELSE IF p.regions[MULTI_SELECTORS[k]].n # 0 THEN p.regions[MULTI_SELECTORS[k]].len
    ELSE MultiBody(p, k + 1)

\* return { url: u, title, body: trim(body, max_per_page) }
MultiValue(u, p, a) ==
    [url |-> u, title |-> Or(p.title, "Untitled"),
     body |-> trim(MultiBody(p, 1), IF a.max_per_page # 0 THEN a.max_per_page ELSE 2000)]

\* urls.map(async (u) => { let res = await axios.get(u, ...); ... }): every
\* callback runs to its await, so every request is out when map returns
LaunchJobs(urls) == urls

\* A wait that is over with the first job that settles
AllSettled_Any(js) == \E k \in DOMAIN js : js[k].status # "pending"

\* await Promise.allSettled(jobs)
AllSettled(js) == \A k \in DOMAIN js : js[k].status # "pending"

\* r.reason?.message || "error"
ReasonText(e) == IF e.message # "" THEN e.message ELSE "error"

\* One block of the output, for results[k]
MultiBlock(js, urls, k) ==
    IF js[k].status = "fulfilled"
    THEN [no |-> k, failed |-> FALSE, url |-> js[k].value.url,
          title |-> js[k].value.title, body |-> js[k].value.body, msg |-> ""]
    ELSE [no |-> k, failed |-> TRUE, url |-> urls[k], title |-> "", body |-> 0,
          msg |-> ReasonText(js[k].reason)]

\* A composition that stops at the first failed job
MultiText_StopAtFailure(js, urls) ==
    LET bad == { k \in DOMAIN js : js[k].status # "fulfilled" }
        n == IF bad = {} THEN Len(js) ELSE CHOOSE k \in bad : \A j \in bad : k <= j
    IN  [lead |-> "Multi-page scrape", blocks |-> [k \in 1..n |-> MultiBlock(js, urls, k)]]

\* results.forEach((r, i) => { ... })
MultiText(js, urls) ==
    [lead |-> "Multi-page scrape", blocks |-> [k \in DOMAIN js |-> MultiBlock(js, urls, k)]]

\* The handler is called: urls.map(...) starts every job, then the handler
\* waits at Promise.allSettled
scrape_multiple ==
    /\ Idle
    /\ \E a \in MultiArgs :
          /\ tool' = "scrape_multiple"
          /\ args' = a
          /\ requests' = LaunchJobs(a.urls)
          /\ jobs' = [k \in DOMAIN a.urls |-> Pending]
    /\ pc' = "jobs"
    /\ UNCHANGED <<API_KEY, i, err, waits, failures, res, result>>

JobPending(k) ==
    /\ tool = "scrape_multiple"
    /\ k \in DOMAIN jobs
    /\ k <= Len(requests)
    /\ jobs[k].status = "pending"

\* Job k's axios.get resolves: the callback extracts and returns, or
\* cheerio.load throws and the job's promise rejects
JobResolve ==
    /\ \E k \in DOMAIN jobs :
          /\ JobPending(k)
          /\ \E p \in MultiPages :
                jobs' = [jobs EXCEPT ![k] =
                          IF p.kind = "null"
                          THEN [Pending EXCEPT !.status = "rejected", !.page = p,
                                               !.reason = CheerioLoadError]
                          ELSE [Pending EXCEPT !.status = "fulfilled", !.page = p,
                                               !.value = MultiValue(args.urls[k], p, args)]]
    /\ UNCHANGED <<API_KEY, tool, args, pc, i, err, requests, waits, failures, res, result>>

\* Job k's axios.get rejects, and so does the job's promise
JobReject ==
    /\ \E k \in DOMAIN jobs :
          /\ JobPending(k)
          /\ \E e \in MultiErrors :
                jobs' = [jobs EXCEPT ![k] = [Pending EXCEPT !.status = "rejected", !.reason = e]]
    /\ UNCHANGED <<API_KEY, tool, args, pc, i, err, requests, waits, failures, res, result>>

\* A handler that lets the first rejected job's error out, as awaiting
\* Promise.all(jobs) would
MultiReturn_RejectOnFailure(js, urls) ==
    IF \E k \in DOMAIN js : js[k].status = "rejected"
    THEN Throw(js[CHOOSE k \in DOMAIN js :
                    /\ js[k].status = "rejected"
                    /\ \A j \in DOMAIN js : js[j].status = "rejected" => k <= j].reason)
    ELSE Return(TextResult(MultiText(js, urls)))

\* return { content: [{ type: "text", text: out }] }: no isError, whatever
\* the jobs' outcomes, and nothing between allSettled and here can throw
MultiReturn(js, urls) == Return(TextResult(MultiText(js, urls)))

\* Promise.allSettled resolves: the handler composes its text and returns
Compose ==
    /\ tool = "scrape_multiple"
    /\ pc = "jobs"
    /\ AllSettled(jobs)
    /\ MultiReturn(jobs, args.urls)
    /\ UNCHANGED <<API_KEY, tool, args, i, err, requests, waits, failures, res, jobs>>

----------------------------------------------------------------------------
\* The handler's promise has settled; the server is ready for the next call
Finish ==
    /\ pc \in {"done", "threw"}
    /\ tool' = "none"
    /\ args' = [query |-> ""]
    /\ pc' = "idle"
    /\ i' = 0
    /\ err' = NoError
    /\ requests' = << >>
    /\ waits' = << >>
    /\ failures' = << >>
    /\ res' = [kind |-> "none"]
    /\ jobs' = << >>
    /\ result' = NoResult
    /\ UNCHANGED API_KEY

Next ==
    \/ web_search
    \/ ai_search
    \/ ReqResolve
    \/ ReqReject
    \/ ReqWake
    \/ web_scrape
    \/ get_links
    \/ PageResolve
    \/ PageReject
    \/ scrape_multiple
    \/ JobResolve
    \/ JobReject
    \/ Compose
    \/ Finish

Spec == Init /\ [][Next]_vars

\* Every axios.get settles (each has a timeout), and the event loop runs a
\* continuation whose promise has resolved
FairSpec ==
    /\ Spec
    /\ WF_vars(JobResolve \/ JobReject)
    /\ WF_vars(Compose)

----------------------------------------------------------------------------
(* Claims *)

Last(s) == s[Len(s)]

\* The invocation in progress had the credential and has returned
SearchDone(t) == tool = t /\ pc = "done" /\ API_KEY = "key"

\* C1: when every attempt of the search client fails, web_search returns an
\* error-flagged result whose text is "Search failed: " followed by the label
\* parseError gives the error, and exactly 3 requests were made: it never
\* returns a failure after fewer, and never makes a fourth.
C1_ThreeAttemptsThenError ==
    /\ (tool = "web_search" => Len(requests) <= 3)
    /\ (SearchDone("web_search") /\ Len(failures) = Len(requests)) =>
          /\ Len(requests) = 3
          /\ result.isError
          /\ result.text.lead = "Search failed: "
          /\ result.text.msg = parseError(Last(failures))

C1_Witness ==
    /\ SearchDone("web_search")
    /\ Len(requests) = 3
    /\ Len(failures) = 3
    /\ result.isError
    /\ result.text.msg \in ParsedLabels

\* C4: with SEARCHAPI_KEY unset or empty, an invocation of web_search or of
\* ai_search has returned the "not configured" error result as soon as it is
\* called, and no request is ever made in it.
C4_NoKeyNoRequest ==
    (API_KEY \in {"undefined", ""} /\ tool \in SearchTools) =>
        /\ requests = << >>
        /\ pc = "done"
        /\ result.isError
        /\ result.text.lead = "Error: SEARCHAPI_KEY not configured."

C4_Witness ==
    /\ API_KEY = ""
    /\ tool = "ai_search"
    /\ pc = "done"
    /\ result.isError
    /\ requests = << >>

\* C9: the search client stops at its first success (the success is its last
\* request and the handler formats that body); the k-th failure (k = 1, 2) is
\* followed by a wait of 1000 * k ms before the next request, the third
\* failure by none; and when all three fail, the error reported is that of
\* the third attempt.
C9_RetrySchedule ==
    (tool \in SearchTools /\ API_KEY = "key") =>
        /\ \A k \in DOMAIN waits : waits[k] = 1000 * k
        /\ Len(waits) = Min(Len(failures), 2)
        /\ Len(requests) <= 3
        /\ (pc = "get" => Len(requests) = Len(failures) + 1 /\ Len(waits) = Len(failures))
        /\ (pc = "sleep" => Len(requests) = Len(failures))
        /\ (pc = "done" /\ res.kind # "none") =>
              /\ Len(requests) = Len(failures) + 1
              /\ (res.kind = "json" => ~result.isError /\ result.text.query = args.query)
              /\ (res.kind = "null" => result.isError /\ result.text.msg = NullDataError.message)
        /\ (pc = "done" /\ res.kind = "none") =>
              /\ Len(failures) = 3
              /\ Len(requests) = 3
              /\ result.isError
              /\ result.text.msg = parseError(failures[3])

C9_Witness ==
    /\ SearchDone("ai_search")
    /\ res.kind = "none"
    /\ waits = <<1000, 2000>>
    /\ failures[1] # failures[3]
    /\ failures[2] # failures[3]
    /\ result.text.msg = "Forbidden (403)"

\* The invocation of tool t has returned a result that is not an error
Returned(t) == tool = t /\ pc = "done" /\ ~result.isError

\* C2: when scrape_multiple returns for n URLs, its output has exactly the
\* blocks 1..n, block k is for urls[k]; it is a FAILED marker with the error's
\* message exactly when job k failed (its request failed, or extracting from
\* its response threw), and otherwise it carries what was extracted from the
\* response to job k's own request, whatever the other jobs did.
C2_OneBlockPerUrl ==
    (tool = "scrape_multiple" /\ pc = "done") =>
        LET b == result.text.blocks
            n == Len(args.urls)
        IN  /\ DOMAIN b = 1..n
            /\ \A k \in 1..n :
                  /\ b[k].no = k
                  /\ b[k].url = args.urls[k]
                  /\ b[k].failed <=> jobs[k].status = "rejected"
                  /\ b[k].failed => b[k].msg = jobs[k].reason.message
                  /\ ~b[k].failed =>
                        /\ jobs[k].page.kind = "html"
                        /\ b[k].title = MultiValue(args.urls[k], jobs[k].page, args).title
                        /\ b[k].body = MultiValue(args.urls[k], jobs[k].page, args).body

C2_Witness ==
    /\ tool = "scrape_multiple"
    /\ pc = "done"
    /\ Len(args.urls) = 3
    /\ ~result.text.blocks[1].failed
    /\ result.text.blocks[2].failed
    /\ result.text.blocks[2].msg = "Request failed with status code 500"
    /\ ~result.text.blocks[3].failed
    /\ result.text.blocks[3].title = "Untitled"

\* The links the handler collected from the page before deduplicating
Collected ==
    IF tool = "get_links" THEN GetLinks(res.nav \o res.anchors, args.url, args.filter)
    ELSE IF args.include_links THEN ScrapeLinks(res.anchors, args.url)
    ELSE << >>

FirstWith(links, url) == CHOOSE k \in DOMAIN links :
    links[k].url = url /\ \A j \in DOMAIN links : links[j].url = url => k <= j

\* C3: every link in the output of get_links, and of web_scrape with
\* include_links, shows the anchor text of the first anchor collected for its
\* URL.
C3_FirstAnchorWins ==
    (tool \in PageTools /\ pc = "done" /\ ~result.isError) =>
        \A k \in DOMAIN result.text.links :
            result.text.links[k].text =
                Collected[FirstWith(Collected, result.text.links[k].url)].text

\* C5: web_search, ai_search, web_scrape and get_links never end by throwing,
\* and whenever the network call failed or processing the response threw, the
\* handler has returned a result with isError set.
C5_FailuresAreReturned ==
    (tool \in SearchTools \cup PageTools) =>
        /\ pc # "threw"
        /\ (pc = "done" /\ (\/ res.kind \in {"none", "null"}
                            \/ (tool = "web_scrape" /\ args.selector = "a["))) =>
              /\ result.isError
              /\ result.text.lead \in
                    { "Error: SEARCHAPI_KEY not configured.", "Search failed: ",
                      "AI search failed: ", "Scrape failed (", "Failed: " }

C5_Witness ==
    /\ tool = "web_scrape"
    /\ pc = "done"
    /\ res.kind = "html"
    /\ args.selector = "a["
    /\ result.isError
    /\ result.text.msg = "Unmatched selector"

\* C6: in an invocation of web_scrape or get_links the only request ever made
\* is one request for the page URL, and in an invocation of scrape_multiple
\* the requests are one per entry of urls, whether they succeed or fail.
C6_OneRequestPerPage ==
    /\ (tool \in PageTools => requests = <<args.url>>)
    /\ (tool = "scrape_multiple" => requests = args.urls)
    /\ (pc \in {"done", "threw"} /\ tool \in PageTools => Len(requests) = 1)

C6_Witness ==
    /\ tool = "get_links"
    /\ pc = "done"
    /\ res.kind = "none"
    /\ result.isError
    /\ Len(requests) = 1

\* C7: in scrape_multiple every job's request is out before the handler
\* waits; the handler has returned only when no job is pending; and a handler
\* waiting on its jobs eventually returns.
C7_WaitsForEveryJob ==
    /\ [](tool = "scrape_multiple" => requests = args.urls)
    /\ [](tool = "scrape_multiple" /\ pc # "jobs" =>
            \A k \in DOMAIN jobs : jobs[k].status # "pending")
    /\ ((tool = "scrape_multiple" /\ pc = "jobs") ~> (tool = "scrape_multiple" /\ pc = "done"))

C7_Witness ==
    /\ tool = "scrape_multiple"
    /\ pc = "done"
    /\ Len(jobs) = 5
    /\ jobs[1].status = "rejected"
    /\ jobs[5].status = "fulfilled"

\* The order the content containers are to be tried in
C8_Order ==
    << "article", "main", "[role='main']", ".post-content", ".article-content",
       ".entry-content", ".content", "#content", ".post-body", ".markdown-body" >>

C8_Long(p, k) == p.regions[C8_Order[k]].n > 0 /\ p.regions[C8_Order[k]].len > 300

\* C8: web_scrape without a selector uses the first container of the list, in
\* the list's order, that matches and has more than 300 characters of trimmed
\* text, and the body if there is none; with a selector it uses that
\* selector's matches, and the body only if it matches nothing.
C8_MainRegion ==
    Returned("web_scrape") =>
        IF args.selector = ""
        THEN \/ \E k \in 1..10 :
                  /\ result.text.main = C8_Order[k]
                  /\ C8_Long(res, k)
                  /\ \A j \in 1..(k - 1) : ~C8_Long(res, j)
             \/ /\ result.text.main = "body"
                /\ \A k \in 1..10 : ~C8_Long(res, k)
        ELSE \/ res.regions[args.selector].n > 0 /\ result.text.main = args.selector
             \/ res.regions[args.selector].n = 0 /\ result.text.main = "body"

C8_Witness ==
    /\ Returned("web_scrape")
    /\ args.selector = ""
    /\ res.regions["article"] = [n |-> 1, len |-> 300]
    /\ res.regions["main"] = [n |-> 1, len |-> 301]
    /\ result.text.main = "main"

C8_WitnessSelector ==
    /\ Returned("web_scrape")
    /\ args.selector = "article"
    /\ res.regions["article"] = [n |-> 1, len |-> 0]
    /\ res.regions["main"] = [n |-> 1, len |-> 301]
    /\ result.text.main = "article"

\* A source has a value
Present(v) == v # "undefined" /\ v # ""

Chain(a, b) == IF Present(a) THEN a ELSE IF Present(b) THEN b ELSE ""

\* C10 as stated: the title is the <title> text, else the og:title, else
\* "Untitled", and description, author and date each come from their first
\* source, else their second, else are empty.
C10_TwoSourcesEach ==
    Returned("web_scrape") =>
        /\ result.text.title = Chain(res.title, Chain(res.ogTitle, "Untitled"))
        /\ result.text.desc = Chain(res.metaDesc, res.ogDesc)
        /\ result.text.author = Chain(res.metaAuthor, res.articleAuthor)
        /\ result.text.date = Chain(res.pubTime, res.timeDt)

\* C10 amended: as stated for title, description and date; the author comes
\* from the author meta tag alone and is empty without it, whatever other
\* author markup the page has.
C10_AuthorHasOneSource ==
    Returned("web_scrape") =>
        /\ result.text.title = Chain(res.title, Chain(res.ogTitle, "Untitled"))
        /\ result.text.desc = Chain(res.metaDesc, res.ogDesc)
        /\ result.text.author = Chain(res.metaAuthor, "")
        /\ result.text.date = Chain(res.pubTime, res.timeDt)

C10_Witness ==
    /\ Returned("web_scrape")
    /\ res.title = ""
    /\ res.ogTitle = "OG title"
    /\ result.text.title = "OG title"
    /\ res.metaAuthor = "undefined"
    /\ res.articleAuthor = "Article author"
    /\ result.text.author = ""
    /\ res.pubTime = ""
    /\ result.text.date = "2023-12-31"

\* C11: an invocation of scrape_multiple never ends by throwing, and what it
\* returns is never flagged as an error: every rejected job, even when all of
\* them are, shows only as the FAILED block of its own position.
C11_FailuresStayInBlocks ==
    (tool = "scrape_multiple") =>
        /\ pc # "threw"
        /\ pc = "done" =>
              /\ ~result.isError
              /\ result.text.lead = "Multi-page scrape"
              /\ DOMAIN result.text.blocks = DOMAIN jobs
              /\ \A k \in DOMAIN jobs :
                    jobs[k].status = "rejected" => result.text.blocks[k].failed

C11_Witness ==
    /\ tool = "scrape_multiple"
    /\ pc = "done"
    /\ Len(jobs) = 5
    /\ \A k \in DOMAIN jobs : jobs[k].status = "rejected"
    /\ ~result.isError
    /\ \A k \in DOMAIN jobs : result.text.blocks[k].failed

====
